---- MODULE Spec2Model ----
(***************************************************************************)
(* Model of pauker-to-sqlite (src/main.py and src/polish.py): the          *)
(* conversion run against the SQLite store, the example-story generation   *)
(* and the progressive reveal script embedded in the rendered document.    *)
(*                                                                         *)
(* The two source files are two drafts of the same program; the variable   *)
(* `variant` says which of them is running.                                *)
(***************************************************************************)
EXTENDS Integers, Sequences, FiniteSets, Bags, TLC

VARIABLES
    variant,            \* "main" (src/main.py) or "polish" (src/polish.py)
    \* ---- the rendering of a story
    text,               \* the story given to the renderer
    answer,             \* history: the answer the text annotates, if known
    hint,               \* history: the hint the text annotates, if known
    rendered,           \* story_with_clozes
    \* ---- the reveal script of the rendered document
    clozeElements,      \* the array filled at DOMContentLoaded
    currentClozeIndex,  \* the shared cursor (0-based, as in the script)
    lastTrigger,        \* history: the last event handled
    prevElements,       \* history: clozeElements before the last event
    prevIndex,          \* history: currentClozeIndex before the last event
    globalCount,        \* history: number of ArrowRight events (saturating)
    onlyGlobal,         \* history: no span has been clicked so far
    \* ---- the SQLite file and the out/ directory
    tables,             \* the tables the database file has
    diskCards,          \* committed rows of table cards
    diskExamples,       \* committed rows of table examples
    documents,          \* the documents written to out/, by example id
    \* ---- one run of convert_pauker_to_sqlite
    pc,                 \* where the run is
    args,               \* the command line: input deck, --example, --model
    env,                \* the environment variables of the process
    batch_index,        \* the batch_index generate_example_story was given
    cards,              \* table cards as the open connection sees it
    examples,           \* table examples as the open connection sees it
    fetched,            \* cursor.fetchall() of the sampling query
    vocab_list,         \* the vocabulary items built from the fetched rows
    reply,              \* the call to the service and what it returned
    story,              \* the value generate_example_story returned or holds
    outcome,            \* how the last run ended
    runs,               \* number of runs started so far
    inserted,           \* history: the card rows this run inserted
    startExamples,      \* history: committed examples when the run started
    startDocuments      \* history: documents when the run started

renderVars == <<text, answer, hint, rendered>>

revealVars == <<clozeElements, currentClozeIndex, lastTrigger, prevElements,
                prevIndex, globalCount, onlyGlobal>>

storeVars == <<tables, diskCards, diskExamples, documents>>

runVars == <<pc, args, env, batch_index, cards, examples, fetched, vocab_list,
             reply, story, outcome, runs, inserted, startExamples,
             startDocuments>>

vars == <<variant, renderVars, revealVars, storeVars, runVars>>

Variants == {"main", "polish"}

(***************************************************************************)
(* Bounds                                                                  *)
(***************************************************************************)
\* most spans of a rendered document
MaxSpans == 3
\* most cards of batch 1 in an input deck
MaxBatch1 == 1
\* batch 2 holds 0 cards with text, or SampleLimit give or take Spread
Spread == 1
\* most cards without any text in batch 2
MaxEmpty == 1
\* most runs against the same database file
MaxRuns == 2
\* most pieces a text given to the renderer is put together from
MaxPieces == 5
\* most characters of an annotated answer
MaxAnswer == 2

(***************************************************************************)
(* Program constants                                                       *)
(***************************************************************************)
\* LIMIT 15 of the sampling query
SampleLimit == 15
\* the batch_number the WHERE clause of the sampling query excludes
QueryExcluded == 1
\* the batch_index argument convert_pauker_to_sqlite passes
BatchIndexArg == 1

(***************************************************************************)
(* Values                                                                  *)
(*                                                                         *)
(* A Python str is a sequence of one-character strings, so '' is << >>.    *)
(* Values that are no str are sequences holding one longer string, which   *)
(* no str equals.                                                          *)
(***************************************************************************)
NoneVal == <<"None">>            \* Python None
NotCalled == <<"NotCalled">>     \* generate_example_story was not called

\* the call to the service: not made, made and raised, or made and answered
NoReply == [called |-> FALSE, raised |-> FALSE, body |-> << >>]
Raised == [called |-> TRUE, raised |-> TRUE, body |-> << >>]
Answered(r) == [called |-> TRUE, raised |-> FALSE, body |-> r]

\* no batch: enumerate(batches, 1) numbers the batches from 1
NoBatch == 0

Min(a, b) == IF a < b THEN a ELSE b

\* truthiness of a Python str or None
Truthy(x) == x # NoneVal /\ x # << >>

\* sep.join(parts)
RECURSIVE Join(_, _)
Join(sep, parts) ==
    IF parts = << >> THEN << >>
    ELSE IF Len(parts) = 1 THEN parts[1]
    ELSE parts[1] \o sep \o Join(sep, Tail(parts))

(***************************************************************************)
(* Input decks: <Batch> elements holding <Card> elements                   *)
(***************************************************************************)
\* A FrontSide or ReverseSide element: `has` names what it carries of the
\* Text child and the LearnedTimestamp attribute.
Side(has, txt, stamp) ==
    [present |-> TRUE, has |-> has, Text |-> txt, LearnedTimestamp |-> stamp]

\* the card has no such side element
NoSide ==
    [present |-> FALSE, has |-> {}, Text |-> << >>, LearnedTimestamp |-> 0]

\* both sides carry text
CardBoth == [FrontSide |-> Side({"Text", "LearnedTimestamp"}, <<"d", "e">>, 17),
             ReverseSide |-> Side({"Text"}, <<"p", "l">>, 0)]
\* no reverse side at all
CardFrontOnly == [FrontSide |-> Side({"Text"}, <<"d", "u">>, 0),
                  ReverseSide |-> NoSide]
\* both Text elements are there and empty
CardBlank == [FrontSide |-> Side({"Text"}, << >>, 0),
              ReverseSide |-> Side({"Text"}, << >>, 0)]
\* neither side has a Text element
CardNoText == [FrontSide |-> Side({"LearnedTimestamp"}, << >>, 17),
               ReverseSide |-> NoSide]

\* the i-th card with text of a batch
TextCard(i) == IF i % 3 = 1 THEN CardBoth
               ELSE IF i % 3 = 2 THEN CardFrontOnly ELSE CardBlank

\* a deck of two batches: b1 cards in batch 1, nf cards with text followed by
\* ne cards without text in batch 2
Deck(b1, nf, ne) ==
    << [i \in 1..b1 |-> TextCard(i)],
       [i \in 1..(nf + ne) |-> IF i <= nf THEN TextCard(i) ELSE CardNoText] >>

DeckSizes == {0} \cup ((SampleLimit - Spread)..(SampleLimit + Spread))

Decks ==
    {Deck(b1, nf, ne) : b1 \in 0..MaxBatch1, nf \in DeckSizes, ne \in 0..MaxEmpty}

Models == {"openai", "gemini"}

\* the input file: a deck, or a file gzip or the XML parser rejects
Inputs ==
    [valid : {TRUE}, batches : Decks] \cup {[valid |-> FALSE, batches |-> << >>]}

Args == [input : Inputs, example : BOOLEAN, model : Models]

NoArgs == [input |-> [valid |-> FALSE, batches |-> << >>], example |-> FALSE,
           model |-> "openai"]

EnvNames == {"OPENAI_API_KEY", "GEMINI_API_KEY"}

\* each variable is unset, set to the empty string or set to a key
Envs == [EnvNames -> {NoneVal, << >>, <<"k">>}]

(***************************************************************************)
(* Ingestion: the loops of convert_pauker_to_sqlite                        *)
(***************************************************************************)
\* f'"{elem.text or ""}"' when the side has a Text element, else ''
SideText(side) ==
    IF ~side.present THEN << >>
    ELSE IF "Text" \notin side.has THEN << >>
    ELSE <<"\"">> \o side.Text \o <<"\"">>

\* front_side.get('LearnedTimestamp', 0), 0 without a front side
LearnedTimestamp(card) ==
    IF ~card.FrontSide.present THEN 0
    ELSE IF "LearnedTimestamp" \notin card.FrontSide.has THEN 0
    ELSE card.FrontSide.LearnedTimestamp

\* the row one pass of the inner loop inserts; total_cards cards went before
CardRow(card, batch_no, total_cards) ==
    [id |-> total_cards + 1,
     batch_number |-> batch_no,
     front_text |-> SideText(card.FrontSide),
     back_text |-> SideText(card.ReverseSide),
     learned_timestamp |-> LearnedTimestamp(card)]

\* for card_index, card in enumerate(cards, 1)
RECURSIVE InsertCards(_, _, _)
InsertCards(cardElems, batch_no, rows) ==
    IF cardElems = << >> THEN rows
    ELSE InsertCards(Tail(cardElems), batch_no,
                     Append(rows,
                            CardRow(Head(cardElems), batch_no, Len(rows))))

\* for batch_index, batch in enumerate(batches, 1), batch_no being the
\* batch_index of the loop
RECURSIVE InsertBatches(_, _, _)
InsertBatches(batches, batch_no, rows) ==
    IF batches = << >> THEN rows
    ELSE InsertBatches(Tail(batches), batch_no + 1,
                       InsertCards(Head(batches), batch_no, rows))

(***************************************************************************)
(* The run                                                                 *)
(***************************************************************************)
NoOutcome == [result |-> "none", error |-> "none"]
Success == [result |-> "success", error |-> "none"]
Failed(kind) == [result |-> "failed", error |-> kind]

\* The database file does not exist and out/ is empty; no run has started.
InitRun ==
    /\ tables = {}
    /\ diskCards = << >>
    /\ diskExamples = << >>
    /\ documents = {}
    /\ pc = "idle"
    /\ args = NoArgs
    /\ env = [n \in EnvNames |-> NoneVal]
    /\ batch_index = NoBatch
    /\ cards = << >>
    /\ examples = << >>
    /\ fetched = EmptyBag
    /\ vocab_list = EmptyBag
    /\ reply = NoReply
    /\ story = NotCalled
    /\ outcome = NoOutcome
    /\ runs = 0
    /\ inserted = << >>
    /\ startExamples = << >>
    /\ startDocuments = {}

\* An exception leaves convert_pauker_to_sqlite: the process ends without
\* conn.commit(), so what the connection had not committed is rolled back.
Abort(kind) ==
    /\ pc' = "exited"
    /\ outcome' = Failed(kind)
    /\ cards' = << >>
    /\ examples' = << >>

\* The command is started: the input is opened and parsed, the database is
\* connected, cards is dropped and created, examples is created if missing.
\* No transaction is open, so each of these statements is committed at once.
StartRun ==
    /\ pc = "idle"
    /\ runs < MaxRuns
    /\ \E a \in Args :
        /\ args' = a
        /\ IF ~a.input.valid
           THEN /\ Abort("DecodeFailure")
                /\ UNCHANGED <<tables, diskCards, diskExamples>>
           ELSE /\ pc' = "ingest"
                /\ outcome' = NoOutcome
                /\ tables' = (tables \ {"cards"}) \cup {"cards", "examples"}
                /\ diskCards' = << >>
                /\ diskExamples' = IF "examples" \in tables THEN diskExamples
                                   ELSE << >>
                /\ cards' = diskCards'
                /\ examples' = diskExamples'
    /\ runs' = runs + 1
    /\ fetched' = EmptyBag
    /\ vocab_list' = EmptyBag
    /\ reply' = NoReply
    /\ story' = NotCalled
    /\ inserted' = << >>
    /\ startExamples' = diskExamples
    /\ startDocuments' = documents
    /\ UNCHANGED <<variant, renderVars, revealVars, documents, env, batch_index>>

\* The loops over the batches and their cards: one INSERT per card, all in
\* the transaction the first INSERT opens.
IngestCards ==
    /\ pc = "ingest"
    /\ cards' = InsertBatches(args.input.batches, 1, cards)
    /\ inserted' = cards'
    /\ pc' = "example"
    /\ UNCHANGED <<variant, renderVars, revealVars, storeVars, args, env, batch_index,
                   examples, fetched, vocab_list, reply, story, outcome,
                   runs, startExamples, startDocuments>>

\* if example: generate_example_story(conn, batch_index=b, model=model)
CallGenerate(b) ==
    /\ pc = "example"
    /\ args.example
    /\ batch_index' = b
    /\ pc' = "generate"
    /\ UNCHANGED <<variant, renderVars, revealVars, storeVars, args, env, cards,
                   examples, fetched, vocab_list, reply, story, outcome,
                   runs, inserted, startExamples, startDocuments>>

\* the run was started without --example
NoExample ==
    /\ pc = "example"
    /\ ~args.example
    /\ pc' = "commit"
    /\ UNCHANGED <<variant, renderVars, revealVars, storeVars, args, env, batch_index,
                   cards, examples, fetched, vocab_list, reply, story,
                   outcome, runs, inserted, startExamples, startDocuments>>

(***************************************************************************)
(* generate_example_story                                                  *)
(***************************************************************************)
\* the environment variable that holds the credential of a backend
CredentialVar_openaiOnly(model) == "OPENAI_API_KEY"

CredentialVar(model) ==
    IF model = "gemini" THEN "GEMINI_API_KEY" ELSE "OPENAI_API_KEY"

\* what the sampling query selects of a row; batch_number is not selected
\* by the query and is kept only to tell where a fetched row came from
Selected(row) == [front_text |-> row.front_text, back_text |-> row.back_text,
                  batch_number |-> row.batch_number]

\* the rows WHERE batch_number != 1 keeps, as a bag
WhereRows(tbl) ==
    LET keep == {i \in DOMAIN tbl : tbl[i].batch_number # QueryExcluded}
    IN  [r \in {Selected(tbl[i]) : i \in keep} |->
            Cardinality({i \in keep : Selected(tbl[i]) = r})]

\* every result ORDER BY random() LIMIT 15 can give: any SampleLimit of the
\* kept rows, or all of them when there are fewer.  The order of the result
\* is left out: a result is a bag of rows.
QueryResults(tbl) ==
    LET kept == WhereRows(tbl)
        n == Min(SampleLimit, BagCardinality(kept))
    IN  {b \in SubBag(kept) : BagCardinality(b) = n}

\* f"{front_text},{back_text}"
VocabItem(row) == row.front_text \o <<",">> \o row.back_text

\* the loop over cursor.fetchall(): rows with some text become items
VocabList(rows) ==
    LET some == {r \in DOMAIN rows :
                    Truthy(r.front_text) \/ Truthy(r.back_text)}
    IN  BagOfAll(VocabItem, [r \in some |-> rows[r]])

\* Replies of the service.  src/polish.py asks for a Dialog: the reply is a
\* JSON object that may lack any field.  src/main.py takes message.content.
\* A JSON object is a record with the set `keys` of the fields it carries.
LineKeys == {"speaker", "german", "polish"}

TurnA == [keys |-> LineKeys, speaker |-> <<"A">>, german |-> <<"J", "a">>,
          polish |-> <<"T", "&">>]
TurnB == [keys |-> LineKeys, speaker |-> <<"B">>, german |-> <<"O", "h">>,
          polish |-> <<"N", "<">>]

\* the object without field k
Without(obj, k) == [obj EXCEPT !.keys = @ \ {k}, ![k] = << >>]

Lines(ls) == [keys |-> {"lines"}, lines |-> ls]

DialogReplies ==
    { Lines(<<TurnA, TurnB>>),
      Lines(<< >>),
      Lines(<<TurnA, Without(TurnB, "polish")>>),
      Lines(<<Without(TurnA, "speaker")>>),
      Lines(<<Without(TurnB, "german"), TurnA>>),
      Without(Lines(<<TurnA>>), "lines") }

TextReplies ==
    { <<"A", ":", " ", "[", "a", "]", "(", "b", ")">>,
      NoneVal }

Replies(v) == IF v = "polish" THEN DialogReplies ELSE TextReplies

\* DialogLine: speaker, german and polish are required
DecodesLine(line) == LineKeys \subseteq line.keys

\* Dialog: lines is required and every line is a DialogLine
Decodes(r) ==
    /\ "lines" \in r.keys
    /\ \A i \in DOMAIN r.lines : DecodesLine(r.lines[i])

\* f"{line.speaker}: {line.german} [{line.polish}]"
FlatLine(line) ==
    line.speaker \o <<":", " ">> \o line.german
        \o <<" ", "[">> \o line.polish \o <<"]">>

\* "\n".join([... for line in dialog.lines])
Flatten_reversed(dialog) ==
    Join(<<"\n">>, [i \in DOMAIN dialog.lines |->
                       FlatLine(dialog.lines[Len(dialog.lines) + 1 - i])])

Flatten(dialog) ==
    Join(<<"\n">>, [i \in DOMAIN dialog.lines |-> FlatLine(dialog.lines[i])])

\* client.beta.chat.completions.parse(..., response_format=Dialog) and
\* message.parsed: a reply that does not decode raises
ParseReply_lenient(r) ==
    [ok |-> TRUE, dialog |-> Lines(SelectSeq(r.lines, DecodesLine))]

ParseReply(r) ==
    IF Decodes(r) THEN [ok |-> TRUE, dialog |-> r]
    ELSE [ok |-> FALSE, dialog |-> Lines(<< >>)]

\* the story the reply gives
StoryOf(v, r) == IF v = "polish" THEN Flatten(ParseReply(r).dialog) ELSE r

\* uuid.uuid4(): an id no row of the table has
NewId(tbl) == Len(tbl) + 1

(***************************************************************************)
(* Rendering of the story: line breaks and cloze spans                     *)
(*                                                                         *)
(* Text is handled character by character.  The fixed pieces of markup     *)
(* that the f-strings of process_cloze emit are kept as one element each,  *)
(* except the quotes that delimit an attribute value, which are            *)
(* characters as any quote of the embedded value is.                       *)
(***************************************************************************)
\* nothing has been rendered
NotRendered == <<"NotRendered">>

\* an exception left re.sub
RenderRaised == <<"RenderRaised">>

\* the least element of a non-empty set of numbers
Least(S) == CHOOSE x \in S : \A y \in S : x <= y

\* str.index(c), 1-based; 0 stands for the ValueError of a missing c
IndexOf(s, c) ==
    LET at == {i \in DOMAIN s : s[i] = c}
    IN  IF at = {} THEN 0 ELSE Least(at)

\* str.replace(old, new) for a one-character old
RECURSIVE Replace(_, _, _)
Replace(s, old, new) ==
    IF s = << >> THEN << >>
    ELSE (IF Head(s) = old THEN new ELSE <<Head(s)>>)
             \o Replace(Tail(s), old, new)

\* html.escape(s, quote=False): & first, then < and >
html_escape_noquote(s) ==
    Replace(Replace(Replace(s, "&", <<"&", "a", "m", "p", ";">>),
                    "<", <<"&", "l", "t", ";">>),
            ">", <<"&", "g", "t", ";">>)

\* html.escape(s): & first, then < and >, then both quotes
html_escape(s) ==
    Replace(Replace(Replace(Replace(Replace(s,
                "&", <<"&", "a", "m", "p", ";">>),
                "<", <<"&", "l", "t", ";">>),
                ">", <<"&", "g", "t", ";">>),
                "\"", <<"&", "q", "u", "o", "t", ";">>),
                "'", <<"&", "#", "x", "2", "7", ";">>)

\* re.sub(r'^(A:|B:)', r'<br>\1', story, flags=re.MULTILINE), from position i
RECURSIVE LineBreaks(_, _)
LineBreaks(s, i) ==
    IF i > Len(s) THEN << >>
    ELSE LET atStart == i = 1 \/ s[i - 1] = "\n"
             turn == i < Len(s) /\ s[i] \in {"A", "B"} /\ s[i + 1] = ":"
         IN  IF atStart /\ turn
             THEN <<"<", "b", "r", ">", s[i], s[i + 1]>> \o LineBreaks(s, i + 2)
             ELSE <<s[i]>> \o LineBreaks(s, i + 1)

\* `.` of a pattern matches every character of s[a..b]: none is a newline
SameLine(s, a, b) == \A k \in a..b : s[k] # "\n"

\* Where the match of the cloze pattern that starts at i ends, 0 when there
\* is none.  src/polish.py: \[.*?\]   src/main.py: \[.*?\]\(.*?\)
MatchEnd(v, s, i) ==
    IF s[i] # "[" THEN 0
    ELSE IF v = "polish"
    THEN LET js == {j \in (i + 1)..Len(s) :
                       s[j] = "]" /\ SameLine(s, i + 1, j - 1)}
         IN  IF js = {} THEN 0 ELSE Least(js)
    ELSE LET ks(j) == {k \in (j + 2)..Len(s) :
                          s[k] = ")" /\ SameLine(s, j + 2, k - 1)}
             js == {j \in (i + 1)..(Len(s) - 2) :
                       /\ s[j] = "]"
                       /\ s[j + 1] = "("
                       /\ SameLine(s, i + 1, j - 1)
                       /\ ks(j) # {}}
         IN  IF js = {} THEN 0 ELSE Least(ks(Least(js)))

\* re.sub scans s from position i: the matches of the cloze pattern, left to
\* right and not overlapping, and the characters between them
RECURSIVE Scan(_, _, _)
Scan(v, s, i) ==
    IF i > Len(s) THEN << >>
    ELSE LET e == MatchEnd(v, s, i)
         IN  IF e = 0
             THEN <<[matched |-> FALSE, group0 |-> <<s[i]>>]>>
                      \o Scan(v, s, i + 1)
             ELSE <<[matched |-> TRUE, group0 |-> SubSeq(s, i, e)]>>
                      \o Scan(v, s, e + 1)

\* where the first '](' of s starts, 0 when s has none
SepAt(s) ==
    LET at == {i \in 1..(Len(s) - 1) : s[i] = "]" /\ s[i + 1] = "("}
    IN  IF at = {} THEN 0 ELSE Least(at)

\* s.split('](')
RECURSIVE Split(_)
Split(s) ==
    IF SepAt(s) = 0 THEN <<s>>
    ELSE <<SubSeq(s, 1, SepAt(s) - 1)>>
             \o Split(SubSeq(s, SepAt(s) + 2, Len(s)))

\* the markup of process_cloze up to the value of data-original
SpanTag == "<span class=\"cloze\" onclick=\"revealCloze(this)\" data-original="
\* the title attribute of src/main.py
TitleTag == " title="
\* the placeholder text and the end of the span ([...] is the ellipsis)
SpanEnd == ">[...]</span>"
\* the visible hint src/main.py puts after the span
HintOpen == "<span class=\"hint\">("
HintEnd == ")</span>"

\* the try block of process_cloze: what it extracts from the match, or the
\* exception it runs into
Extract(v, full_text) ==
    IF v = "polish"
    THEN LET a == IndexOf(full_text, "[")
             b == IndexOf(full_text, "]")
         IN  IF a = 0 \/ b = 0
             THEN [error |-> "ValueError", content |-> << >>, hint |-> << >>]
             ELSE [error |-> "none",
                   content |-> SubSeq(full_text, a + 1, b - 1),
                   hint |-> << >>]
    ELSE LET parts == Split(SubSeq(full_text, 2, Len(full_text) - 1))
         IN  IF Len(parts) # 2
             THEN [error |-> "ValueError", content |-> << >>, hint |-> << >>]
             ELSE [error |-> "none", content |-> parts[1], hint |-> parts[2]]

\* the exceptions the except clause of process_cloze names
Caught_none(v) == {}

Caught(v) ==
    IF v = "polish" THEN {"ValueError", "IndexError"} ELSE {"ValueError"}

\* process_cloze(match), full_text being match.group(0)
process_cloze(v, full_text) ==
    LET x == Extract(v, full_text)
    IN  IF x.error # "none"
        THEN IF x.error \in Caught(v) THEN full_text ELSE RenderRaised
        ELSE IF v = "polish"
        THEN <<SpanTag, "\"">> \o html_escape(x.content) \o <<"\"", SpanEnd>>
        ELSE <<SpanTag, "\"">> \o html_escape(x.content)
                 \o <<"\"", TitleTag, "\"">> \o html_escape(x.hint)
                 \o <<"\"", SpanEnd, HintOpen>> \o html_escape(x.hint)
                 \o <<HintEnd>>

\* story_with_clozes: both substitutions applied to the story
RenderStory(v, s) ==
    LET sc == Scan(v, LineBreaks(s, 1), 1)
        out == [k \in DOMAIN sc |->
                   IF sc[k].matched THEN process_cloze(v, sc[k].group0)
                   ELSE sc[k].group0]
    IN  IF \E k \in DOMAIN out : out[k] = RenderRaised THEN RenderRaised
        ELSE Join(<< >>, out)

(***************************************************************************)
(* Story texts given to the renderer                                       *)
(***************************************************************************)
\* what the texts without a known annotation are put together from
TextPieces ==
    {<<"[">>, <<"]">>, <<"]", "(">>, <<")">>, <<"\n">>, <<"A", ":">>}

GeneralTexts ==
    UNION {{Join(<< >>, f) : f \in [1..n -> TextPieces]} : n \in 0..MaxPieces}

\* the characters of answers and hints: those html.escape rewrites and one
\* it leaves alone
EscChars == {"&", "<", ">", "\"", "'", "a"}

Answers == UNION {[1..n -> EscChars] : n \in 0..MaxAnswer}

\* a hint is empty or one character
Hints == {h \in Answers : Len(h) <= 1}

\* the annotation of an answer, with its hint when one is given
Annotation(a, h) ==
    <<"[">> \o a \o <<"]">>
        \o (IF h = NoneVal THEN << >> ELSE <<"(">> \o h \o <<")">>)

\* what stands before the annotation on its line
Leads == {<< >>, <<"B", ":", " ">>}

\* no story has been given to the renderer
NoRender ==
    /\ text = << >>
    /\ answer = NoneVal
    /\ hint = NoneVal
    /\ rendered = NotRendered

\* a story is about to be rendered: any text of the pieces, or one
\* annotation of a known answer and hint
InitRender ==
    /\ \/ /\ text \in GeneralTexts
          /\ answer = NoneVal
          /\ hint = NoneVal
       \/ /\ answer \in Answers
          /\ hint \in Hints \cup {NoneVal}
          /\ \E l \in Leads : text = l \o Annotation(answer, hint)
    /\ rendered = NotRendered

\* re.sub over the story, as generate_example_story applies it
RenderText ==
    /\ rendered = NotRendered
    /\ rendered' = RenderStory(variant, text)
    /\ UNCHANGED <<variant, text, answer, hint, revealVars, storeVars, runVars>>

(***************************************************************************)
(* generate_example_story: the steps                                       *)
(***************************************************************************)
\* os.environ.get reads the environment of the process, and the model takes
\* it as an input here.  Without a credential for the chosen backend the
\* function returns None.
CheckCredential ==
    /\ pc = "generate"
    /\ \E e \in Envs :
        /\ env' = e
        /\ IF Truthy(e[CredentialVar(args.model)])
           THEN pc' = "query" /\ story' = story
           ELSE pc' = "commit" /\ story' = NoneVal
    /\ UNCHANGED <<variant, renderVars, revealVars, batch_index, storeVars, args, cards,
                   examples, fetched, vocab_list, reply, outcome, runs,
                   inserted, startExamples, startDocuments>>

\* The sampling query and the loop that builds vocab_list.
SampleVocabulary ==
    /\ pc = "query"
    /\ \E rows \in QueryResults(cards) :
        /\ fetched' = rows
        /\ vocab_list' = VocabList(rows)
    /\ pc' = "service"
    /\ UNCHANGED <<variant, renderVars, revealVars, batch_index, storeVars, args, env,
                   cards, examples, reply, story, outcome, runs, inserted,
                   startExamples, startDocuments>>

\* The prompt is built and sent; the service answers and the answer is taken
\* as the story.
ServiceReplies ==
    /\ pc = "service"
    /\ \E r \in Replies(variant) :
        /\ reply' = Answered(r)
        /\ IF variant = "polish" /\ ~ParseReply(r).ok
           THEN /\ Abort("SchemaViolation")
                /\ story' = story
           ELSE /\ pc' = "persist"
                /\ story' = StoryOf(variant, r)
                /\ UNCHANGED <<cards, examples, outcome>>
    /\ UNCHANGED <<variant, renderVars, revealVars, batch_index, storeVars, args, env,
                   fetched, vocab_list, runs, inserted, startExamples,
                   startDocuments>>

\* The call to the service raises (no network, a rejected key, a refusal).
ServiceFails ==
    /\ pc = "service"
    /\ reply' = Raised
    /\ Abort("ServiceError")
    /\ UNCHANGED <<variant, renderVars, revealVars, batch_index, storeVars, args, env,
                   fetched, vocab_list, story, runs, inserted, startExamples,
                   startDocuments>>

\* INSERT INTO examples and conn.commit(): the commit also commits the
\* card rows of the open transaction.
PersistExample ==
    /\ pc = "persist"
    /\ examples' = Append(examples, [id |-> NewId(examples), body |-> story])
    /\ diskExamples' = examples'
    /\ diskCards' = cards
    /\ pc' = "render"
    /\ UNCHANGED <<variant, renderVars, revealVars, batch_index, tables, documents, args,
                   env, cards, fetched, vocab_list, reply, story, outcome,
                   runs, inserted, startExamples, startDocuments>>

\* The story is rendered, the document is written to out/ under the example
\* id, and the function returns the story.
WriteDocument ==
    /\ pc = "render"
    /\ story # NoneVal
    /\ text' = story
    /\ rendered' = RenderStory(variant, story)
    /\ documents' = documents \cup {examples[Len(examples)].id}
    /\ pc' = "commit"
    /\ UNCHANGED <<variant, answer, hint, revealVars, batch_index, tables,
                   diskCards, diskExamples, args, env, cards, examples,
                   fetched, vocab_list, reply, story, outcome, runs, inserted,
                   startExamples, startDocuments>>

\* re.sub raises on a story that is None (TypeError), or out/ cannot be
\* created or the file cannot be written (OSError).
WriteFails ==
    /\ pc = "render"
    /\ Abort(IF story = NoneVal THEN "TypeError" ELSE "OSError")
    /\ UNCHANGED <<variant, renderVars, revealVars, batch_index, storeVars, args, env,
                   fetched, vocab_list, reply, story, runs, inserted,
                   startExamples, startDocuments>>

\* conn.commit() and conn.close() at the end of the run.
CommitAndClose ==
    /\ pc = "commit"
    /\ diskCards' = cards
    /\ diskExamples' = examples
    /\ cards' = << >>
    /\ examples' = << >>
    /\ pc' = "exited"
    /\ outcome' = Success
    /\ UNCHANGED <<variant, renderVars, revealVars, batch_index, tables, documents, args,
                   env, fetched, vocab_list, reply, story, runs, inserted,
                   startExamples, startDocuments>>

\* The process is gone: what it held in memory is gone with it.
ProcessExits ==
    /\ pc = "exited"
    /\ pc' = "idle"
    /\ args' = NoArgs
    /\ env' = [n \in EnvNames |-> NoneVal]
    /\ batch_index' = NoBatch
    /\ fetched' = EmptyBag
    /\ vocab_list' = EmptyBag
    /\ reply' = NoReply
    /\ story' = NotCalled
    /\ outcome' = NoOutcome
    /\ inserted' = << >>
    /\ startExamples' = << >>
    /\ startDocuments' = {}
    /\ text' = << >>
    /\ rendered' = NotRendered
    /\ UNCHANGED <<variant, answer, hint, revealVars, storeVars, cards, examples,
                   runs>>

(***************************************************************************)
(* The reveal script                                                       *)
(***************************************************************************)

\* getAttribute('data-revealed') of a span that never had the attribute set
Absent == "absent"

\* A span as process_cloze emits it: class "cloze", text "[...]", no
\* data-revealed attribute.  textContent is kept symbolically: "mask" is the
\* emitted placeholder, "first" is original.charAt(0) + the ellipsis, and
\* "original" is the whole data-original value.
ClozeSpan == [revealed |-> Absent, textContent |-> "mask", class |-> "cloze"]

\* first branch of both handlers: show the first character
ShowFirst(el) == [el EXCEPT !.textContent = "first", !.revealed = "partial"]

\* second branch of both handlers: show the full solution
ShowFull(el) == [el EXCEPT !.textContent = "original", !.class = "revealed",
                           !.revealed = "full"]

\* revealCloze(element): element is the position (1-based) of the clicked span
revealCloze_cursor(st, e) ==
    IF st.els[e].revealed = Absent
    THEN [st EXCEPT !.els[e] = ShowFirst(@)]
    ELSE IF st.els[e].revealed = "partial"
         THEN [els |-> [st.els EXCEPT ![e] = ShowFull(@)],
               idx |-> (st.idx + 1) % Len(st.els)]
         ELSE st

revealCloze_toggle(st, e) ==
    IF st.els[e].revealed = Absent
    THEN [st EXCEPT !.els[e] = ShowFirst(@)]
    ELSE IF st.els[e].revealed = "partial"
         THEN [st EXCEPT !.els[e] = ShowFull(@)]
         ELSE [st EXCEPT !.els[e] = ClozeSpan]

revealCloze(st, e) ==
    IF st.els[e].revealed = Absent
    THEN [st EXCEPT !.els[e] = ShowFirst(@)]
    ELSE IF st.els[e].revealed = "partial"
         THEN [st EXCEPT !.els[e] = ShowFull(@)]
         ELSE st

\* revealNextCloze(): src/main.py calls itself again after moving the cursor,
\* src/polish.py does not.
RECURSIVE revealNextCloze(_, _)
revealNextCloze(v, st) ==
    IF Len(st.els) = 0 THEN st
    ELSE LET e == st.idx + 1 IN
         IF st.els[e].revealed = Absent
         THEN [st EXCEPT !.els[e] = ShowFirst(@)]
         ELSE IF st.els[e].revealed = "partial"
              THEN LET moved == [els |-> [st.els EXCEPT ![e] = ShowFull(@)],
                                 idx |-> (st.idx + 1) % Len(st.els)]
                   IN  IF v = "main" THEN revealNextCloze(v, moved) ELSE moved
              ELSE st

\* the largest value the ArrowRight counter distinguishes
CountCap == 2 * MaxSpans + 1

\* State after DOMContentLoaded: every span as emitted, cursor on the first
InitReveal ==
    /\ \E n \in 0..MaxSpans : clozeElements = [i \in 1..n |-> ClozeSpan]
    /\ currentClozeIndex = 0
    /\ lastTrigger = [kind |-> "load", target |-> 0]
    /\ prevElements = clozeElements
    /\ prevIndex = 0
    /\ globalCount = 0
    /\ onlyGlobal = TRUE

\* keydown listener: ArrowRight calls revealNextCloze()
KeydownArrowRight ==
    LET st == revealNextCloze(variant,
                              [els |-> clozeElements, idx |-> currentClozeIndex])
    IN  /\ clozeElements' = st.els
        /\ currentClozeIndex' = st.idx
        /\ lastTrigger' = [kind |-> "key", target |-> 0]
        /\ prevElements' = clozeElements
        /\ prevIndex' = currentClozeIndex
        /\ globalCount' = IF globalCount < CountCap THEN globalCount + 1
                          ELSE globalCount
        /\ UNCHANGED <<variant, renderVars, onlyGlobal, storeVars, runVars>>

\* onclick="revealCloze(this)" of the e-th span
ClickCloze(e) ==
    LET st == revealCloze([els |-> clozeElements, idx |-> currentClozeIndex], e)
    IN  /\ clozeElements' = st.els
        /\ currentClozeIndex' = st.idx
        /\ lastTrigger' = [kind |-> "click", target |-> e]
        /\ prevElements' = clozeElements
        /\ prevIndex' = currentClozeIndex
        /\ onlyGlobal' = FALSE
        /\ UNCHANGED <<variant, renderVars, globalCount, storeVars, runVars>>

Click == \E e \in 1..Len(clozeElements) : ClickCloze(e)

\* no document is loaded
NoDocument ==
    /\ clozeElements = << >>
    /\ currentClozeIndex = 0
    /\ lastTrigger = [kind |-> "load", target |-> 0]
    /\ prevElements = << >>
    /\ prevIndex = 0
    /\ globalCount = 0
    /\ onlyGlobal = TRUE

(***************************************************************************)
(* Specifications                                                          *)
(***************************************************************************)
\* a rendered document in the viewer
InitDoc == variant \in Variants /\ NoRender /\ InitReveal /\ InitRun

NextDoc == KeydownArrowRight \/ Click

SpecDoc == InitDoc /\ [][NextDoc]_vars

\* runs of the command against one database file
Init == variant \in Variants /\ NoRender /\ NoDocument /\ InitRun

\* convert_pauker_to_sqlite passes batch_index=1
CallFromCommand == CallGenerate(BatchIndexArg)

Next ==
    \/ StartRun
    \/ IngestCards
    \/ CallFromCommand
    \/ NoExample
    \/ CheckCredential
    \/ SampleVocabulary
    \/ ServiceReplies
    \/ ServiceFails
    \/ PersistExample
    \/ WriteDocument
    \/ WriteFails
    \/ CommitAndClose
    \/ ProcessExits

Spec == Init /\ [][Next]_vars

\* generate_example_story as a function of its arguments: a caller passes
\* the number of any batch of the deck as batch_index
CallFromAnyCaller == \E b \in DOMAIN args.input.batches : CallGenerate(b)

NextCall ==
    \/ StartRun
    \/ IngestCards
    \/ CallFromAnyCaller
    \/ NoExample
    \/ CheckCredential
    \/ SampleVocabulary
    \/ ServiceReplies
    \/ ServiceFails
    \/ PersistExample
    \/ WriteDocument
    \/ WriteFails
    \/ CommitAndClose
    \/ ProcessExits

SpecCall == Init /\ [][NextCall]_vars

\* the renderer as a function of the story
InitText == variant \in Variants /\ InitRender /\ NoDocument /\ InitRun

NextText == RenderText

SpecText == InitText /\ [][NextText]_vars

(***************************************************************************)
(* Properties of the reveal script (checked under SpecDoc)                 *)
(***************************************************************************)

\* Position of a data-revealed value in [hidden, partial, full]
Rank(r) == IF r = Absent THEN 0 ELSE IF r = "partial" THEN 1 ELSE 2

\* the spans whose state or presentation the last event changed
ChangedSpans == {i \in 1..Len(clozeElements) : clozeElements[i] # prevElements[i]}

\* span i moved exactly one step forward during the last event
OneStep(i) == Rank(clozeElements[i].revealed) = Rank(prevElements[i].revealed) + 1

\* C1: whatever event is handled (click or ArrowRight, in any interleaving),
\* no span moves backward in [hidden, partial, full], none skips a state, and
\* a span that was full before the event is left exactly as it was.
C1_RevealMonotone ==
    /\ Len(clozeElements) = Len(prevElements)
    /\ \A i \in 1..Len(clozeElements) :
        /\ Rank(clozeElements[i].revealed) >= Rank(prevElements[i].revealed)
        /\ Rank(clozeElements[i].revealed) <= Rank(prevElements[i].revealed) + 1
        /\ prevElements[i].revealed = "full" => clozeElements[i] = prevElements[i]

\* C1 witness: a click and an ArrowRight have both been handled, and the last
\* event was applied to a span that was already full.
C1_Witness ==
    /\ ~onlyGlobal
    /\ globalCount > 0
    /\ \/ /\ lastTrigger.kind = "click"
          /\ prevElements[lastTrigger.target].revealed = "full"
       \/ /\ lastTrigger.kind = "key"
          /\ Len(prevElements) > 0
          /\ prevElements[prevIndex + 1].revealed = "full"

\* C2 (as claimed): one ArrowRight event changes at most one span, and that
\* span by exactly one step.
C2_OneSpanPerGlobalTrigger ==
    lastTrigger.kind = "key" =>
        /\ Cardinality(ChangedSpans) <= 1
        /\ \A i \in ChangedSpans : OneStep(i)

\* the state that k ArrowRight events alone leave behind, as the claim C3
\* describes it: spans before floor(k/2) full, span floor(k/2) partial when k
\* is odd, the rest hidden, and the cursor on span floor(k/2) modulo N
ExpectedRevealed(k, i) ==
    IF i - 1 < k \div 2 THEN "full"
    ELSE IF i - 1 = k \div 2 /\ k % 2 = 1 THEN "partial"
    ELSE Absent

\* C3 (as claimed): from a freshly loaded document with N >= 1 spans, with
\* only ArrowRight events, the k-th event (1 <= k <= 2N) changes only span
\* floor((k-1)/2): odd k makes it partial and leaves the cursor, even k makes
\* it full and moves the cursor to the next span, wrapping after the last.
C3_GlobalSequence ==
    (onlyGlobal /\ Len(clozeElements) >= 1
                /\ globalCount >= 1 /\ globalCount <= 2 * Len(clozeElements)) =>
        /\ ChangedSpans = {(globalCount - 1) \div 2 + 1}
        /\ \A i \in 1..Len(clozeElements) :
              clozeElements[i].revealed = ExpectedRevealed(globalCount, i)
        /\ currentClozeIndex = (globalCount \div 2) % Len(clozeElements)
        /\ globalCount % 2 = 1 => currentClozeIndex = prevIndex

\* C4: a click on a span moves that span one step forward (or leaves it when
\* it is already full) and changes neither another span nor the cursor, also
\* when the clicked span is the one under the cursor.
C4_ClickFrame ==
    lastTrigger.kind = "click" =>
        LET e == lastTrigger.target IN
        /\ currentClozeIndex = prevIndex
        /\ \A i \in 1..Len(clozeElements) : i # e => clozeElements[i] = prevElements[i]
        /\ Rank(clozeElements[e].revealed) =
              IF prevElements[e].revealed = "full" THEN 2
              ELSE Rank(prevElements[e].revealed) + 1

\* C4 witness: the span under the cursor was partial, was clicked and is full,
\* while another span is still not full.
C4_Witness ==
    /\ lastTrigger.kind = "click"
    /\ lastTrigger.target = prevIndex + 1
    /\ prevElements[lastTrigger.target].revealed = "partial"
    /\ clozeElements[lastTrigger.target].revealed = "full"
    /\ \E i \in 1..Len(clozeElements) : clozeElements[i].revealed # "full"

(***************************************************************************)
(* Properties of the run (checked under Spec)                              *)
(***************************************************************************)

\* generate_example_story has run its sampling query and holds vocab_list
Sampled == pc \in {"service", "persist", "render"}

\* the stored cards outside batch b that have some text
Qualifying(tbl, b) ==
    {i \in DOMAIN tbl : /\ tbl[i].batch_number # b
                        /\ tbl[i].front_text # << >> \/ tbl[i].back_text # << >>}

\* C5 (as claimed): the sampler returns exactly min(15, q) items, q being
\* the number of stored cards outside the excluded batch that have some
\* text; cards without any text do not count toward the 15.
C5_SamplerBound ==
    Sampled => BagCardinality(vocab_list) =
                   Min(SampleLimit, Cardinality(Qualifying(cards, batch_index)))

\* C6 (as claimed): whatever batch_index the sampler is given, no row it
\* fetched, and so no vocabulary item, comes from a card whose batch_number
\* is that batch_index.
C6_Exclusion ==
    Sampled => \A r \in BagToSet(fetched) : r.batch_number # batch_index

\* the run asked for an example and has read the environment
CalledGenerate ==
    /\ args.input.valid
    /\ args.example
    /\ batch_index # NoBatch
    /\ pc \in {"query", "service", "persist", "render", "commit", "exited"}

\* no credential is configured for the backend --model selects
NoCredentialForModel ==
    \/ args.model = "openai" /\ env["OPENAI_API_KEY"] \in {NoneVal, << >>}
    \/ args.model = "gemini" /\ env["GEMINI_API_KEY"] \in {NoneVal, << >>}

\* C7: without a credential for the selected backend generate_example_story
\* returns None, the service is not called, no example row and no document
\* is added, and the run ends successfully with every inserted card row
\* committed.
C7_MissingCredential ==
    (CalledGenerate /\ NoCredentialForModel) =>
        /\ pc \in {"commit", "exited"}
        /\ story = NoneVal
        /\ ~reply.called
        /\ diskExamples = startExamples
        /\ pc = "commit" => examples = startExamples
        /\ documents = startDocuments
        /\ pc = "exited" => outcome = Success /\ diskCards = inserted

\* C7 witness: a run with cards ended after the skip, while the credential
\* of the other backend was set.
C7_Witness ==
    /\ CalledGenerate
    /\ NoCredentialForModel
    /\ pc = "exited"
    /\ Len(inserted) > 0
    /\ \E n \in EnvNames : env[n] = <<"k">>

\* the service answered with a reply that does not decode as a Dialog
UndecodableReply ==
    /\ variant = "polish"
    /\ reply.called
    /\ ~reply.raised
    /\ ~Decodes(reply.body)

\* C8: when the reply does not decode against Dialog, the run fails with the
\* schema error before any write: the examples table holds the rows it held
\* when the run started and no document was written.
C8_SchemaRejection ==
    UndecodableReply =>
        /\ pc = "exited"
        /\ outcome = Failed("SchemaViolation")
        /\ diskExamples = startExamples
        /\ documents = startDocuments

\* C8 witness: such a reply arrived in a run against a store that already
\* held an example and its document.
C8_Witness ==
    /\ UndecodableReply
    /\ Len(startExamples) > 0
    /\ startDocuments # {}

\* C9 (as claimed): when the service call or the decoding of its reply
\* fails, the card rows the run inserted are committed all the same.
C9_CardsSurviveFailure ==
    (pc = "exited" /\ outcome \in {Failed("SchemaViolation"), Failed("ServiceError")})
        => diskCards = inserted

\* every example row the store held when the run started is still there
\* with the same id and body
ExamplesKept ==
    \A i \in DOMAIN startExamples :
        \E j \in DOMAIN diskExamples : diskExamples[j] = startExamples[i]

\* generate_example_story returned a story
GenerationSucceeded == outcome = Success /\ story # NotCalled /\ story # NoneVal

\* C10 (as claimed): when a run has ended, every example row from before
\* it is kept, and the run added exactly one row when generation succeeded
\* and none otherwise.
C10_AppendOnly ==
    (pc = "exited" /\ args.input.valid) =>
        /\ ExamplesKept
        /\ Len(diskExamples) =
              Len(startExamples) + (IF GenerationSucceeded THEN 1 ELSE 0)

\* the run got past the parsing of its input and has not left the process
InRun == pc # "idle" /\ args.input.valid

\* C11 (as claimed): the steps of generate_example_story run in the order
\* sample, build prompt, call service, parse, render, persist: while the
\* rendering of the document is still to come no example row has been added,
\* and a run that failed while rendering or writing the document leaves the
\* examples table as it found it.
C11_RenderBeforePersist ==
    InRun =>
        /\ pc = "render" => diskExamples = startExamples
        /\ (pc = "exited" /\ outcome \in {Failed("TypeError"), Failed("OSError")})
              => diskExamples = startExamples

\* C12 (as claimed): when the sampling query has been executed, every card
\* row of the run has been inserted and committed to the store.
C12_IngestCommittedBeforeSampling ==
    (InRun /\ Sampled) => cards = inserted /\ diskCards = inserted

(***************************************************************************)
(* Progress of the reveal script (checked under SpecDoc)                   *)
(***************************************************************************)

\* C17 (as claimed): in any interleaving of clicks and ArrowRight events, an
\* ArrowRight event handled while some span is not yet full changes the
\* state of some span, so repeated ArrowRight events bring every span to
\* full.  (An ArrowRight event that changes nothing leaves the script in the
\* same state, so the next one changes nothing either.)
C17_GlobalProgress ==
    (lastTrigger.kind = "key"
        /\ \E i \in 1..Len(prevElements) : prevElements[i].revealed # "full")
    => ChangedSpans # {}

(***************************************************************************)
(* Properties of the renderer (checked under SpecText)                     *)
(***************************************************************************)

\* some line of s starts with A: or B:
HasTurnStart(s) ==
    \E i \in 1..(Len(s) - 1) :
        /\ i = 1 \/ s[i - 1] = "\n"
        /\ s[i] \in {"A", "B"}
        /\ s[i + 1] = ":"

\* s holds a well-formed annotation of the convention of the draft: [..] in
\* src/polish.py, [..](..) in src/main.py, all on one line
HasAnnotation(v, s) ==
    \E i \in DOMAIN s : \E j \in DOMAIN s :
        /\ i < j
        /\ s[i] = "["
        /\ s[j] = "]"
        /\ SameLine(s, i, j)
        /\ v = "main" =>
              /\ j < Len(s)
              /\ s[j + 1] = "("
              /\ \E k \in (j + 2)..Len(s) : s[k] = ")" /\ SameLine(s, j, k)

\* the answer and hint of a matched span cannot be told apart: the span has
\* no bracket pair, or (src/main.py) what is between its first and last
\* character does not hold exactly one ](
ExtractionFails(v, m) ==
    IF v = "polish"
    THEN (\A i \in DOMAIN m : m[i] # "[") \/ (\A i \in DOMAIN m : m[i] # "]")
    ELSE Cardinality({i \in 2..(Len(m) - 2) : m[i] = "]" /\ m[i + 1] = "("}) # 1

\* the spans of the text the cloze pattern matched
MatchedSpans ==
    LET sc == Scan(variant, LineBreaks(text, 1), 1)
    IN  {sc[k].group0 : k \in {n \in DOMAIN sc : sc[n].matched}}

\* C13: rendering never raises, and a text without a line starting with A:
\* or B: in which no annotation is well formed, or in which the extraction
\* fails for every span the pattern matched, is rendered as the very same
\* text.
C13_LenientExtractor ==
    rendered # NotRendered =>
        /\ rendered # RenderRaised
        /\ (~HasTurnStart(text) /\ ~HasAnnotation(variant, text))
              => rendered = text
        /\ (~HasTurnStart(text)
               /\ \A m \in MatchedSpans : ExtractionFails(variant, m))
              => rendered = text

\* C13 witness: a rendered text that holds a bracket that is never closed
\* and a matched span whose extraction fails.
C13_Witness ==
    /\ rendered # NotRendered
    /\ ~HasTurnStart(text)
    /\ \E i \in DOMAIN text :
          text[i] = "[" /\ \A j \in (i + 1)..Len(text) : text[j] # "]"
    /\ \E m \in MatchedSpans : ExtractionFails(variant, m)

\* where the rendered text carries the attribute a tag opens
TagPositions(out, tag) == {p \in DOMAIN out : out[p] = tag}

\* the value of the attribute opened at position p, as a markup parser reads
\* it: what stands between the quote after the tag and the next quote
AttrValue(out, p) ==
    LET close == {q \in (p + 2)..Len(out) : out[q] = "\""}
    IN  IF p + 1 > Len(out) \/ out[p + 1] # "\"" \/ close = {}
        THEN RenderRaised
        ELSE SubSeq(out, p + 2, Least(close) - 1)

\* the escape sequences of the markup and the characters they stand for
Entities ==
    { [esc |-> <<"&", "a", "m", "p", ";">>, char |-> "&"],
      [esc |-> <<"&", "l", "t", ";">>, char |-> "<"],
      [esc |-> <<"&", "g", "t", ";">>, char |-> ">"],
      [esc |-> <<"&", "q", "u", "o", "t", ";">>, char |-> "\""],
      [esc |-> <<"&", "#", "x", "2", "7", ";">>, char |-> "'"] }

\* the escape sequences s starts with
EntitiesAt(s) ==
    {e \in Entities : Len(s) >= Len(e.esc) /\ SubSeq(s, 1, Len(e.esc)) = e.esc}

\* un-escaping: every escape sequence is replaced by its character
RECURSIVE Unescape(_)
Unescape(s) ==
    IF s = << >> THEN << >>
    ELSE IF EntitiesAt(s) = {} THEN <<Head(s)>> \o Unescape(Tail(s))
    ELSE LET e == CHOOSE x \in EntitiesAt(s) : TRUE
         IN  <<e.char>> \o Unescape(SubSeq(s, Len(e.esc) + 1, Len(s)))

\* s has no raw < > " ' and no & that does not start an escape sequence
WellEscaped(s) ==
    \A i \in DOMAIN s :
        /\ s[i] \notin {"<", ">", "\"", "'"}
        /\ s[i] = "&" => EntitiesAt(SubSeq(s, i, Len(s))) # {}

\* the text of one annotation of a known answer has been rendered
RenderedAnnotation == rendered # NotRendered /\ answer # NoneVal

\* C14 (as claimed): an annotation [answer](hint) is rendered as one
\* placeholder that carries the answer and the hint, with no bracket or
\* parenthesis of the annotation left as text; an annotation [answer]
\* without a hint is rendered as one placeholder that carries the answer.
C14_BothConventions ==
    RenderedAnnotation =>
        /\ Cardinality(TagPositions(rendered, SpanTag)) = 1
        /\ \A p \in TagPositions(rendered, SpanTag) :
              Unescape(AttrValue(rendered, p)) = answer
        /\ hint # NoneVal =>
              /\ Cardinality(TagPositions(rendered, TitleTag)) = 1
              /\ \A p \in TagPositions(rendered, TitleTag) :
                    Unescape(AttrValue(rendered, p)) = hint
        /\ \A i \in DOMAIN rendered : rendered[i] \notin {"[", "]", "(", ")"}

\* C15: the value embedded in the data-original attribute of a span (and
\* in its title attribute, where the span has one) holds no raw < > " ' and
\* no & that does not start an escape sequence, and un-escaping it gives the
\* answer (the hint) exactly.
C15_EscapingRoundTrip ==
    RenderedAnnotation =>
        /\ \A p \in TagPositions(rendered, SpanTag) :
              /\ AttrValue(rendered, p) # RenderRaised
              /\ WellEscaped(AttrValue(rendered, p))
              /\ Unescape(AttrValue(rendered, p)) = answer
        /\ \A p \in TagPositions(rendered, TitleTag) :
              /\ AttrValue(rendered, p) # RenderRaised
              /\ WellEscaped(AttrValue(rendered, p))
              /\ Unescape(AttrValue(rendered, p)) = hint

\* C15 witness: a span with both attributes was rendered for an answer that
\* holds an ampersand and a quote and a hint that holds a special character.
C15_Witness ==
    /\ RenderedAnnotation
    /\ TagPositions(rendered, SpanTag) # {}
    /\ TagPositions(rendered, TitleTag) # {}
    /\ \E i \in DOMAIN answer : answer[i] = "&"
    /\ \E i \in DOMAIN answer : answer[i] \in {"\"", "'"}
    /\ hint # NoneVal
    /\ \E i \in DOMAIN hint : hint[i] \in {"&", "<", ">", "\"", "'"}

(***************************************************************************)
(* The flattened dialogue (checked under Spec)                             *)
(***************************************************************************)

\* the lines of s: what stands between its newlines
RECURSIVE SplitLines(_)
SplitLines(s) ==
    IF IndexOf(s, "\n") = 0 THEN <<s>>
    ELSE <<SubSeq(s, 1, IndexOf(s, "\n") - 1)>>
             \o SplitLines(SubSeq(s, IndexOf(s, "\n") + 1, Len(s)))

\* the service answered with a dialogue that decodes, and the story was
\* built from it
ParsedDialogue ==
    /\ variant = "polish"
    /\ reply.called
    /\ ~reply.raised
    /\ Decodes(reply.body)
    /\ pc \in {"persist", "render", "commit", "exited"}

\* the example row was inserted from the story
StoryPersisted == pc \in {"render", "commit"} \/ (pc = "exited" /\ reply.called)

\* C16: the story built from a parsed dialogue of n turns has n lines, the
\* i-th being "<speaker>: <german> [<polish>]" of the i-th turn of the reply
\* (the empty text for n = 0); this text is the body of the example row and
\* the text given to the renderer.
C16_FlattenedTurns ==
    ParsedDialogue =>
        LET turns == reply.body.lines
        IN  /\ turns = << >> => story = << >>
            /\ turns # << >> =>
                  /\ Len(SplitLines(story)) = Len(turns)
                  /\ \A i \in DOMAIN turns :
                        SplitLines(story)[i] =
                            turns[i].speaker \o <<":", " ">> \o turns[i].german
                                \o <<" ", "[">> \o turns[i].polish \o <<"]">>
            /\ StoryPersisted =>
                  diskExamples[Len(diskExamples)].body = story
            /\ rendered # NotRendered /\ pc = "commit" => text = story

\* C16 witness: a run ended well after a dialogue of two different turns
\* was flattened, stored and rendered.
C16_Witness ==
    /\ ParsedDialogue
    /\ Len(reply.body.lines) = 2
    /\ reply.body.lines[1] # reply.body.lines[2]
    /\ pc = "exited"
    /\ outcome = Success
    /\ text = story

====
